---- MODULE Spec2Model ----
(***************************************************************************)
(* RequestBall (src/src/requestball.cpp): the trajectory of one ball.      *)
(*                                                                         *)
(* Coordinates and distances are the code's floats, modelled in fixed point *)
(* on an integer grid of Scale steps per half pixel, so that offset =       *)
(* size * 0.5 is exact.  A float division is a division rounded to the      *)
(* nearest grid value (RDiv), a float square root likewise (SqrtIn).  A     *)
(* division by zero yields the code's Inf/NaN: the model stores NaN in the *)
(* fields that receive it and, when the path receives it, raises the flag  *)
(* nan and follows the trajectory no further.                              *)
(***************************************************************************)
EXTENDS Integers, Sequences, FiniteSets, TLC

\* ---------------------------------------------------------------- bounds
DisplayWidth  == 48      \* display.width, in half pixels
DisplayHeight == 32      \* display.height, in half pixels
Speed         == 6       \* settings.pitch_speed * display.width, in half pixels per unit of dt
MaxDt         == 3       \* dt ranges over 0..MaxDt
MaxTravel     == 72      \* a finished ball gets no logic(dt) once distance_travelled exceeds this
Scale         == 16      \* grid steps per half pixel

\* size floor of the constructor
MinSize == 5

\* the point (x, y), given in half pixels
At(x, y) == << x * Scale, y * Scale >>

display_width  == DisplayWidth * Scale
display_height == DisplayHeight * Scale

\* The inputs of the constructor.
Origins  == { At(-4, 16), At(8, 20) }
Dests    == { At(24, 8), At(24, 16), At(12, 8), At(2, 24), At(-2, 24), At(8, 10), At(8, 20) }
RawSizes == { 3, 7 }     \* log(response_size) + 1
DestXs   == { x * Scale : x \in { 0, 10, 20, 30, 60 } }

\* ---------------------------------------------------------------- floats
\* A non-finite float (Inf or NaN): a value outside every finite coordinate.
NaN == 1000000

Abs(n) == IF n < 0 THEN -n ELSE n

\* n / d for d # 0, rounded to the nearest grid value
RDiv(n, d) ==
    LET q == (2 * Abs(n) + Abs(d)) \div (2 * Abs(d))
    IN  IF (n < 0) # (d < 0) THEN -q ELSE q

\* sqrt(n) rounded to the nearest grid value: the least r in lo..hi with
\* (r + 1/2)^2 > n, by bisection
RECURSIVE SqrtIn(_, _, _)
SqrtIn(n, lo, hi) ==
    IF lo = hi THEN lo
    ELSE LET mid == (lo + hi) \div 2
         IN  IF (2 * mid + 1) * (2 * mid + 1) > 4 * n
             THEN SqrtIn(n, lo, mid)
             ELSE SqrtIn(n, mid + 1, hi)

RECURSIVE GCD(_, _)
GCD(a, b) == IF b = 0 THEN a ELSE GCD(b, a % b)

\* glm::length(p - q)
Length(p, q) ==
    LET dx == Abs(p[1] - q[1])
        dy == Abs(p[2] - q[2])
    IN  SqrtIn(dx * dx + dy * dy, 0, dx + dy)

\* glm::normalize(v): the direction of v; only the ratio and the signs of the
\* components are read by the code.  The zero vector has no direction (NaN).
Normalize(v) ==
    LET g == GCD(Abs(v[1]), Abs(v[2]))
    IN  IF g = 0 THEN <<NaN, NaN>> ELSE << v[1] \div g, v[2] \div g >>

Last(s) == s[Len(s)]

\* ---------------------------------------------------------------- state
VARIABLES
    pos,                 \* vec2 pos
    dest,                \* vec2 dest
    dir,                 \* vec2 dir
    size,                \* float size
    offset,              \* vec2 offset
    has_bounced,         \* bool has_bounced
    no_bounce,           \* bool no_bounce
    distance_travelled,  \* float distance_travelled
    total_distance,      \* float total_distance
    points,              \* std::vector<vec2> points
    line_lengths,        \* std::vector<float> line_lengths
    nan,                 \* a non-finite value has been stored in the path
    call,                \* the last call made on the ball, with its argument and result
    old,                 \* the fields as they were when that call was made
    arrivals             \* the number of logic() calls that have returned true

fields == << pos, dest, dir, size, offset, has_bounced, no_bounce,
             distance_travelled, total_distance, points, line_lengths, nan >>

vars == << fields, call, old, arrivals >>

\* The ball as one record: what the member functions read and return.
Self ==
    [ pos |-> pos, dest |-> dest, dir |-> dir, size |-> size, offset |-> offset,
      has_bounced |-> has_bounced, no_bounce |-> no_bounce,
      distance_travelled |-> distance_travelled, total_distance |-> total_distance,
      points |-> points, line_lengths |-> line_lengths, nan |-> nan ]

Becomes(b) ==
    /\ pos' = b.pos
    /\ dest' = b.dest
    /\ dir' = b.dir
    /\ size' = b.size
    /\ offset' = b.offset
    /\ has_bounced' = b.has_bounced
    /\ no_bounce' = b.no_bounce
    /\ distance_travelled' = b.distance_travelled
    /\ total_distance' = b.total_distance
    /\ points' = b.points
    /\ line_lengths' = b.line_lengths
    /\ nan' = b.nan

\* ---------------------------------------------------------------- member functions

\* addPoint() without the push onto line_lengths
addPoint_no_length(b, p) ==
    LET line_length == Length(Last(b.points), p)
    IN  [ b EXCEPT !.total_distance = @ + line_length,
                   !.points = Append(@, p) ]

\* void RequestBall::addPoint(const vec2& p)
addPoint(b, p) ==
    LET line_length == Length(Last(b.points), p)
    IN  [ b EXCEPT !.total_distance = @ + line_length,
                   !.points = Append(@, p),
                   !.line_lengths = Append(@, line_length) ]

\* RequestBall::RequestBall(le, colour, pos, dest); successful and raw_size are
\* le->successful and log(le->response_size) + 1
Construct(p, d, successful, raw_size) ==
    LET sz == IF raw_size < MinSize THEN MinSize ELSE raw_size
        b0 == [ pos |-> p, dest |-> d, dir |-> Normalize(<< d[1] - p[1], d[2] - p[2] >>),
                size |-> sz, offset |-> << sz * Scale, sz * Scale >>,
                has_bounced |-> FALSE, no_bounce |-> ~successful,
                distance_travelled |-> 0, total_distance |-> 0,
                points |-> << p >>, line_lengths |-> << >>, nan |-> (p = d) ]
    IN  addPoint(b0, d)

\* project(): target.x after the if(!no_bounce) ... else ...
target_x(b) == IF ~b.no_bounce THEN 0 ELSE display_width

\* dir.x negated for every ball
turned_dir_always(b) == << -b.dir[1], b.dir[2] >>

\* project(): dir after the if(!no_bounce) ... else ...
turned_dir(b) == IF ~b.no_bounce THEN << -b.dir[1], b.dir[2] >> ELSE b.dir

\* the two inset bounds taken for one another
intersect_y_swapped(b, y) ==
    IF y <= b.offset[2] THEN display_height - b.offset[2] ELSE b.offset[2]

\* project(): the inset bound a path leaving the bounds at y reflects off
intersect_y(b, y) == IF y <= b.offset[2] THEN b.offset[2] ELSE display_height - b.offset[2]

\* void RequestBall::project()
project(b) ==
    LET tx       == target_x(b)
        dir1     == turned_dir(b)
        lo       == b.offset[2]
        hi       == display_height - b.offset[2]
        b0       == [ b EXCEPT !.distance_travelled = 0, !.total_distance = 0,
                               !.dir = dir1, !.points = << b.pos >>,
                               !.line_lengths = << >> ]
        a        == tx - b.pos[1]
    IN  IF dir1[1] = 0
        THEN \* t = dir.y / dir.x is +Inf or -Inf; dir.x is -0.0 when it was negated
             IF a = 0
             THEN \* y = pos.y + Inf * 0 is NaN: both comparisons are false
                  [ b0 EXCEPT !.points = << b.pos, << tx, NaN >> >>,
                              !.line_lengths = << NaN >>,
                              !.total_distance = NaN, !.nan = TRUE ]
             ELSE LET up == ((dir1[2] < 0) # (a < 0)) # (~b.no_bounce)
                      \* up: y is -Inf, the path leaves through the top inset
                      iy == IF up THEN lo ELSE hi
                      b1 == addPoint(b0, << b.pos[1], iy >>)
                  IN  [ b1 EXCEPT !.points = Append(@, << tx, NaN >>),
                                  !.line_lengths = Append(@, NaN),
                                  !.total_distance = NaN, !.nan = TRUE ]
        ELSE LET y == b.pos[2] + RDiv(dir1[2] * a, dir1[1])
             IN  IF y < lo \/ y > hi
                 THEN LET iy == intersect_y(b, y)
                          o  == iy - b.pos[2]
                      IN  IF dir1[2] = 0
                          THEN \* x = pos.x + o / 0 is Inf, the last y is 0 * Inf
                               [ b0 EXCEPT !.points = << b.pos, << NaN, iy >>,
                                                         << tx, NaN >> >>,
                                           !.line_lengths = << NaN, NaN >>,
                                           !.total_distance = NaN, !.nan = TRUE ]
                          ELSE LET x  == b.pos[1] + RDiv(o * dir1[1], dir1[2])
                                   b1 == addPoint(b0, << x, iy >>)
                                   bounce_dir == << dir1[1], -dir1[2] >>
                                   y2 == iy + RDiv(bounce_dir[2] * (tx - x), bounce_dir[1])
                               IN  addPoint(b1, << tx, y2 >>)
                 ELSE addPoint(b0, << tx, y >>)

\* bounce() as a toggle of the flag
bounce_toggle(b) ==
    IF b.has_bounced THEN [ b EXCEPT !.has_bounced = FALSE ]
    ELSE [ project(b) EXCEPT !.has_bounced = TRUE ]

\* bounce() without its early return
bounce_again(b) == [ project(b) EXCEPT !.has_bounced = TRUE ]

\* void RequestBall::bounce()
bounce(b) ==
    IF b.has_bounced THEN b ELSE [ project(b) EXCEPT !.has_bounced = TRUE ]

\* the path rebuilt from the ball's position instead of points[0]
retarget_from_pos(b, dest_x) ==
    LET start == b.pos
        y == start[2] + RDiv(b.dir[2] * (dest_x - start[1]), b.dir[1])
        d == << dest_x, y >>
    IN  IF b.dir[1] = 0 THEN [ b EXCEPT !.nan = TRUE ]
        ELSE addPoint([ b EXCEPT !.dest = d, !.total_distance = 0,
                                 !.line_lengths = << >>, !.points = << start >> ], d)

\* the path rebuilt without total_distance = 0.0f
retarget_stale_total(b, dest_x) ==
    LET start == b.points[1]
        y == start[2] + RDiv(b.dir[2] * (dest_x - start[1]), b.dir[1])
        d == << dest_x, y >>
    IN  IF b.dir[1] = 0 THEN [ b EXCEPT !.nan = TRUE ]
        ELSE addPoint([ b EXCEPT !.dest = d, !.line_lengths = << >>,
                                 !.points = << start >> ], d)

\* the path rebuilt and distance_travelled restarted with it
retarget_restart(b, dest_x) ==
    LET start == b.points[1]
        y == start[2] + RDiv(b.dir[2] * (dest_x - start[1]), b.dir[1])
        d == << dest_x, y >>
    IN  IF b.dir[1] = 0 THEN [ b EXCEPT !.nan = TRUE ]
        ELSE addPoint([ b EXCEPT !.dest = d, !.total_distance = 0,
                                 !.distance_travelled = 0,
                                 !.line_lengths = << >>, !.points = << start >> ], d)

\* changeDestX(): the path rebuilt towards dest_x, from float t = ... on
retarget(b, dest_x) ==
    LET start == b.points[1]
    IN  IF b.dir[1] = 0
        THEN \* t is +Inf or -Inf, and dest_x - start.x > 0: y is non-finite
             [ b EXCEPT !.dest = << dest_x, NaN >>,
                        !.points = << start, << dest_x, NaN >> >>,
                        !.line_lengths = << NaN >>,
                        !.total_distance = NaN, !.nan = TRUE ]
        ELSE LET y == start[2] + RDiv(b.dir[2] * (dest_x - start[1]), b.dir[1])
                 d == << dest_x, y >>
             IN  addPoint([ b EXCEPT !.dest = d, !.total_distance = 0,
                                     !.line_lengths = << >>,
                                     !.points = << start >> ], d)

\* changeDestX() without its early return
changeDestX_unguarded(b, dest_x) ==
    IF dest_x <= b.pos[1] THEN bounce(b) ELSE retarget(b, dest_x)

\* changeDestX() comparing with < where the code has <=
changeDestX_strict(b, dest_x) ==
    IF b.has_bounced THEN b
    ELSE IF dest_x < b.pos[1] THEN bounce(b)
    ELSE retarget(b, dest_x)

\* void RequestBall::changeDestX(float dest_x)
changeDestX(b, dest_x) ==
    IF b.has_bounced THEN b
    ELSE IF dest_x <= b.pos[1] THEN bounce(b)
    ELSE retarget(b, dest_x)

\* The segment scan of animate: the while loop from (pointno, len), as << pointno, len >>
RECURSIVE Scan(_, _, _, _)
Scan(b, d, pointno, len) ==
    IF pointno < Len(b.points) - 1 /\ len + b.line_lengths[pointno + 1] < d
    THEN Scan(b, d, pointno + 1, len + b.line_lengths[pointno + 1])
    ELSE << pointno, len >>

\* a tick that leaves the distance where it was
advance_still(b, dt) == b.distance_travelled

\* the accumulation written as an assignment
advance_set(b, dt) == dt * Speed * Scale

\* animate(): distance_travelled += dt * settings.pitch_speed * (float) display.width
advance(b, dt) == b.distance_travelled + dt * Speed * Scale

\* the end of the path reached: the ball is put on the last waypoint first
at_end_snapped(b) ==
    IF ~b.has_bounced THEN bounce([ b EXCEPT !.pos = Last(b.points) ])
    ELSE [ b EXCEPT !.pos = Last(b.points) ]

\* animate(): if(!has_bounced) bounce(); return;
at_end(b) == IF ~b.has_bounced THEN bounce(b) ELSE b

\* the end of the path tested with > where the code has >=
reached_end_strict(b, d) == d > b.total_distance

\* animate(): if(distance_travelled >= total_distance)
reached_end(b, d) == d >= b.total_distance

\* void RequestBall::animate(float dt)
animate(b, dt) ==
    LET d  == advance(b, dt)
        b1 == [ b EXCEPT !.distance_travelled = d ]
    IN  IF reached_end(b, d)
        THEN at_end(b1)
        ELSE LET nolines == Len(b.points) - 1
                 found   == Scan(b, d, 0, 0)
                 pointno == found[1]
                 len     == found[2]
             IN  IF pointno >= nolines
                 THEN at_end(b1)
                 ELSE LET from == b.points[pointno + 1]
                          to   == b.points[pointno + 2]
                          l    == b.line_lengths[pointno + 1]
                      IN  IF l = 0
                          THEN \* linepos = (d - len) / 0 and to - from is zero: pos is
                               \* NaN until a later frame computes it anew
                               [ b1 EXCEPT !.pos = << NaN, NaN >> ]
                          ELSE [ b1 EXCEPT !.pos =
                                   << from[1] + RDiv((to[1] - from[1]) * (d - len), l),
                                      from[2] + RDiv((to[2] - from[2]) * (d - len), l) >> ]

\* int RequestBall::logic(float dt): the ball after the call and the value returned
logic(b, dt) ==
    LET old_x == b.pos[1]
        b1    == animate(b, dt)
    IN  [ ball |-> b1,
          ret  |-> (old_x < 0 /\ b1.pos[1] # NaN /\ b1.pos[1] >= 0) ]

\* bool RequestBall::isFinished() const
isFinished(b) == b.has_bounced /\ b.distance_travelled >= b.total_distance

\* float RequestBall::getProgress() const, as the fraction << numerator, denominator >>
getProgress(b) == << b.distance_travelled, b.total_distance >>

\* ---------------------------------------------------------------- the calls

Init ==
    \E p \in Origins, d \in Dests, successful \in BOOLEAN, raw_size \in RawSizes :
        LET b == Construct(p, d, successful, raw_size)
        IN  /\ pos = b.pos
            /\ dest = b.dest
            /\ dir = b.dir
            /\ size = b.size
            /\ offset = b.offset
            /\ has_bounced = b.has_bounced
            /\ no_bounce = b.no_bounce
            /\ distance_travelled = b.distance_travelled
            /\ total_distance = b.total_distance
            /\ points = b.points
            /\ line_lengths = b.line_lengths
            /\ nan = b.nan
            /\ call = [ op |-> "new", arg |-> 0, ret |-> FALSE ]
            /\ old = b
            /\ arrivals = 0

\* The frame loop calls logic(dt) on every ball it holds.  A ball whose fields
\* are not finite is followed no further, and a finished ball only until its
\* distance_travelled exceeds MaxTravel.
TickEnabled ==
    /\ ~nan
    /\ ~(isFinished(Self) /\ distance_travelled > MaxTravel * Scale)

\* ball->logic(dt)
Logic(dt) ==
    /\ TickEnabled
    /\ Becomes(logic(Self, dt).ball)
    /\ call' = [ op |-> "logic", arg |-> dt, ret |-> logic(Self, dt).ret ]
    /\ old' = Self
    /\ arrivals' = arrivals + (IF logic(Self, dt).ret THEN 1 ELSE 0)

\* ball->changeDestX(dest_x)
ChangeDestX(dest_x) ==
    /\ ~nan
    /\ Becomes(changeDestX(Self, dest_x))
    /\ call' = [ op |-> "changeDestX", arg |-> dest_x, ret |-> FALSE ]
    /\ old' = Self
    /\ UNCHANGED arrivals

\* ball->bounce()
Bounce ==
    /\ ~nan
    /\ Becomes(bounce(Self))
    /\ call' = [ op |-> "bounce", arg |-> 0, ret |-> FALSE ]
    /\ old' = Self
    /\ UNCHANGED arrivals

Next ==
    \/ \E dt \in 0..MaxDt : Logic(dt)
    \/ \E dest_x \in DestXs : ChangeDestX(dest_x)
    \/ Bounce

Spec == Init /\ [][Next]_vars

\* a frame: logic(dt) with dt bounded below by one unit
Tick == \E dt \in 1..MaxDt : Logic(dt)

\* Weak fairness of Tick: the frame loop keeps calling logic(dt).  TickEnabled is
\* ENABLED <<Tick>>_vars, since a frame always changes call, old and
\* distance_travelled or has_bounced.
Fairness == []<>(~TickEnabled) \/ []<><<Tick>>_vars

LiveSpec == Init /\ [][Next]_vars /\ Fairness

\* ---------------------------------------------------------------- properties
\* Every call records the fields it found in old, so a property of one call is
\* a property of the state the call leaves.

Lo == offset[2]
Hi == display_height - offset[2]

\* p <= q for two progress fractions with positive denominators
FracLeq(p, q) == p[1] * q[2] <= q[1] * p[2]

\* C1: has_bounced never goes back from true to false, whatever call is made
\* (logic, changeDestX or bounce), so it turns true at most once.
C1_HasBouncedIrreversible == old.has_bounced => has_bounced

\* bounce() has been called on a ball that had already bounced
C1_Witness == call.op = "bounce" /\ old.has_bounced /\ has_bounced

\* C2: for a trajectory with origin # destination the progress
\* distance_travelled / total_distance lies in [0,1] in every reachable state,
\* ticks after the finish included.
C2_ProgressInUnitInterval ==
    (~nan /\ total_distance > 0) =>
        (FracLeq(<< 0, 1 >>, getProgress(Self)) /\ FracLeq(getProgress(Self), << 1, 1 >>))

\* C3 as claimed: the progress after a tick is at least the progress before it,
\* the tick of the bounce transition included.
C3_ProgressMonotoneAlways ==
    (call.op = "logic" /\ ~nan /\ total_distance > 0 /\ old.total_distance > 0) =>
        FracLeq(getProgress(old), getProgress(Self))

\* C3 amended: the progress after a tick is at least the progress before it on
\* every tick that does not perform the bounce transition; on the tick that
\* performs it the progress restarts at 0.
C3_ProgressMonotoneBetweenBounces ==
    (call.op = "logic" /\ ~nan /\ total_distance > 0 /\ old.total_distance > 0) =>
        IF has_bounced = old.has_bounced
        THEN FracLeq(getProgress(old), getProgress(Self))
        ELSE getProgress(Self)[1] = 0

\* a tick with dt > 0 that moved the progress forward on a bounced ball
C3_Witness ==
    /\ call.op = "logic" /\ call.arg > 0 /\ ~nan
    /\ has_bounced /\ old.has_bounced
    /\ old.distance_travelled > 0
    /\ distance_travelled > old.distance_travelled
    /\ distance_travelled < total_distance

\* C4: once has_bounced is true no call changes points, line_lengths or
\* total_distance.
C4_PathFrozenAfterBounce ==
    old.has_bounced =>
        /\ points = old.points
        /\ line_lengths = old.line_lengths
        /\ total_distance = old.total_distance

\* a tick that moved a bounced ball along a three-point path
C4_Witness ==
    /\ call.op = "logic" /\ call.arg > 0 /\ old.has_bounced
    /\ Len(points) = 3 /\ pos # old.pos

\* C5: changeDestX(x) on a ball that has bounced changes no field, for every x.
C5_ChangeDestXAfterBounceNoOp ==
    (call.op = "changeDestX" /\ old.has_bounced) => Self = old

\* changeDestX(x) with x ahead of the ball, called after the bounce
C5_Witness ==
    /\ call.op = "changeDestX" /\ old.has_bounced
    /\ call.arg > pos[1] /\ ~isFinished(Self)

\* the y of the line through origin with the slope dir.y / dir.x, at x
SlopeY(origin, d, x) == origin[2] + RDiv(d[2] * (x - origin[1]), d[1])

\* C6: before the bounce, changeDestX(x) with x > pos.x and dir.x # 0 leaves the
\* path << origin, (x, origin.y + t * (x - origin.x)) >> with t = dir.y / dir.x,
\* makes that second point the destination and its distance from the origin the
\* total distance, and leaves has_bounced false; the origin is the one of the
\* constructor and t the slope of the constructor's origin -> destination line,
\* since no call that leaves has_bounced false changes points[0] or dir.
C6_RetargetBeforeBounce ==
    /\ (call.op = "new" /\ ~nan) =>
            /\ points[1] = pos
            /\ dir[2] * (dest[1] - pos[1]) = dir[1] * (dest[2] - pos[2])
            /\ (dir[1] > 0) = (dest[1] > pos[1])
    /\ (call.op # "new" /\ ~has_bounced) =>
            (points[1] = old.points[1] /\ dir = old.dir)
    /\ (call.op = "changeDestX" /\ ~old.has_bounced
            /\ call.arg > old.pos[1] /\ old.dir[1] # 0) =>
            LET origin == old.points[1]
                d      == << call.arg, SlopeY(origin, old.dir, call.arg) >>
            IN  /\ points = << origin, d >>
                /\ dest = d
                /\ line_lengths = << Length(origin, d) >>
                /\ total_distance = Length(origin, d)
                /\ ~has_bounced

\* a second re-target in a row, made after the ball has left its origin
C6_Witness ==
    /\ call.op = "changeDestX" /\ ~has_bounced /\ ~nan
    /\ old.dest[1] \in DestXs
    /\ dest # old.dest
    /\ pos # points[1]
    /\ dir[2] # 0

\* C7: before the bounce, changeDestX(x) with x <= pos.x does what bounce() does:
\* has_bounced is true, distance_travelled is 0, the path starts at the ball's
\* position, and dest is unchanged, x being used for no waypoint.
C7_ChangeDestXBehindBounces ==
    (call.op = "changeDestX" /\ ~old.has_bounced /\ call.arg <= old.pos[1]) =>
        /\ has_bounced
        /\ distance_travelled = 0
        /\ points[1] = old.pos
        /\ pos = old.pos
        /\ dest = old.dest
        /\ Self = bounce(old)

\* changeDestX(x) called with x exactly the ball's x, after the ball has moved
C7_Witness ==
    /\ call.op = "changeDestX" /\ ~old.has_bounced
    /\ call.arg = old.pos[1]
    /\ old.distance_travelled > 0
    /\ has_bounced /\ ~nan

\* C8: when the projection reflects (three waypoints) from a position inside
\* the inset bounds, both waypoints it appends have y in
\* [offset.y, display.height - offset.y].
C8_ReflectedPathInsideBounds ==
    (has_bounced /\ ~nan /\ Len(points) = 3
        /\ Lo <= points[1][2] /\ points[1][2] <= Hi) =>
        \A i \in 2..3 : Lo <= points[i][2] /\ points[i][2] <= Hi

\* C9: the projection ends the path at x = display.width and leaves dir.x as it
\* was for a no_bounce ball, and ends it at x = 0 and negates dir.x for any
\* other ball; no other call changes dir, so dir.x is negated once.
C9_TargetEdgeAndDirection ==
    /\ no_bounce = old.no_bounce
    /\ has_bounced => Last(points)[1] = (IF no_bounce THEN display_width ELSE 0)
    /\ IF has_bounced /\ ~old.has_bounced
       THEN dir = (IF no_bounce THEN old.dir ELSE << -old.dir[1], old.dir[2] >>)
       ELSE dir = old.dir

\* a no_bounce ball right after a projection that reflected
C9_Witness ==
    /\ has_bounced /\ ~old.has_bounced /\ ~nan
    /\ no_bounce /\ dir[1] > 0 /\ Len(points) = 3

\* C10: the path after the bounce has 2 or 3 waypoints and never changes in
\* number; the projection starts it at the ball's position and, with y the
\* extrapolation to the far target x along dir.y / dir.x (dir.x # 0), appends
\* the one waypoint (target x, y) when y is within the inset bounds, and two
\* waypoints otherwise, the first on the inset bound that y lies beyond.
C10_PathAfterBounce ==
    /\ has_bounced => Len(points) \in {2, 3}
    /\ (has_bounced /\ ~old.has_bounced /\ dir[1] # 0) =>
            LET tx == IF no_bounce THEN display_width ELSE 0
                y  == SlopeY(old.pos, dir, tx)
            IN  /\ points[1] = old.pos
                /\ IF Lo <= y /\ y <= Hi
                   THEN points = << old.pos, << tx, y >> >>
                   ELSE /\ Len(points) = 3
                        /\ points[2][2] = (IF y < Lo THEN Lo ELSE Hi)
                        /\ points[3][1] = tx

\* a projection that reflected off the bottom inset
C10_Witness ==
    /\ has_bounced /\ ~old.has_bounced /\ ~nan
    /\ Len(points) = 3 /\ points[2][2] = Hi /\ points[1][2] < Hi

\* C11: after the constructor and after every call the path has at least two
\* points and exactly one more point than it has segment lengths.
C11_PointsAndLengthsInStep ==
    /\ Len(points) >= 2
    /\ Len(points) = Len(line_lengths) + 1

\* changeDestX() behind the ball that bounced it onto a reflected path
C11_Witness ==
    /\ call.op = "changeDestX" /\ ~old.has_bounced /\ has_bounced
    /\ Len(points) = 3 /\ Len(line_lengths) = 2

RECURSIVE Sum(_)
Sum(s) == IF s = << >> THEN 0 ELSE s[1] + Sum(Tail(s))

\* C12: after the constructor and after every call that stores finite values,
\* total_distance is the sum of line_lengths and line_lengths[i] is the length
\* of points[i] -> points[i+1]; nothing of a discarded path is left.
C12_TotalIsSumOfLengths ==
    ~nan =>
        /\ total_distance = Sum(line_lengths)
        /\ \A i \in 1..Len(line_lengths) :
               line_lengths[i] = Length(points[i], points[i + 1])

\* a re-target that shortened the path, and then a bounce that replaced it
C12_Witness ==
    /\ ~nan /\ has_bounced /\ ~old.has_bounced
    /\ old.dest[1] \in DestXs
    /\ Len(points) = 3
    /\ total_distance < old.total_distance

\* the call was a re-target: changeDestX(x) before the bounce with x > pos.x
Retargeted == call.op = "changeDestX" /\ ~old.has_bounced /\ call.arg > old.pos[1]

\* the call performed the bounce transition
BounceFired == has_bounced /\ ~old.has_bounced

\* C13 as claimed: distance_travelled is 0 after every rebuild of the path, by a
\* re-target as by the bounce projection, and no other call decreases it.
C13_DistanceResetOnEveryRebuild ==
    call.op # "new" =>
        IF Retargeted \/ BounceFired
        THEN distance_travelled = 0
        ELSE distance_travelled >= old.distance_travelled

\* C13 amended: distance_travelled is reset to 0 by the bounce projection only;
\* a re-target rebuilds the path and leaves distance_travelled as it was; no
\* call other than the one that fires the bounce decreases it.
C13_DistanceResetOnBounceOnly ==
    call.op # "new" =>
        /\ BounceFired => distance_travelled = 0
        /\ Retargeted => distance_travelled = old.distance_travelled
        /\ ~BounceFired => distance_travelled >= old.distance_travelled

\* a re-target of a ball that had already travelled
C13_Witness ==
    /\ Retargeted /\ ~nan
    /\ points # old.points
    /\ distance_travelled > 0

\* a point with a non-finite coordinate
Undefined(p) == p[1] = NaN \/ p[2] = NaN

\* C14: for a ball whose heading is vertical (dir.x = 0) neither the re-target
\* nor the bounce projection divides by zero, so that no waypoint and no
\* destination ever holds a non-finite coordinate.
C14_VerticalHeadingStaysFinite ==
    dir[1] = 0 =>
        /\ ~Undefined(dest)
        /\ \A i \in 1..Len(points) : ~Undefined(points[i])

\* C15: for a ball made with origin = destination (its dir has no value and its
\* total_distance is 0) the progress query does not divide by zero: the
\* fraction it returns has a denominator that is neither 0 nor non-finite.
C15_ProgressGuardedOnZeroPath ==
    dir = << NaN, NaN >> =>
        (getProgress(Self)[2] # 0 /\ getProgress(Self)[2] # NaN)

\* the tick just made found distance_travelled + dt * speed >= total_distance
TickReachedEnd ==
    call.op = "logic" /\ advance(old, call.arg) >= old.total_distance

\* C16: a tick that brings distance_travelled to total_distance or beyond on a
\* ball that has not bounced fires the bounce in that tick and drops the
\* overshoot: has_bounced is true, distance_travelled is 0, pos is where it was
\* and is the first waypoint of the new path.  Such a tick on a ball that has
\* bounced leaves pos where it was.
C16_BounceOnReachingEnd ==
    TickReachedEnd =>
        /\ pos = old.pos
        /\ ~old.has_bounced =>
               /\ has_bounced
               /\ distance_travelled = 0
               /\ points[1] = pos

\* a tick that overshot the end of the first path of a ball that had moved
C16_Witness ==
    /\ TickReachedEnd /\ ~old.has_bounced /\ ~nan
    /\ advance(old, call.arg) > old.total_distance
    /\ old.distance_travelled > 0
    /\ pos # old.points[2]

\* C17: once isFinished() is true it is true after every further call (logic
\* with dt >= 0, changeDestX, bounce), and it is never true of a ball that has
\* not bounced.
C17_FinishedIsAbsorbing ==
    /\ isFinished(old) => isFinished(Self)
    /\ ~has_bounced => ~isFinished(Self)

\* a finished ball ticked again, past the end of its path
C17_Witness ==
    /\ call.op = "logic" /\ call.arg > 0
    /\ isFinished(old) /\ isFinished(Self)
    /\ distance_travelled > total_distance

\* C18: a trajectory that is not degenerate (origin # destination, and the
\* heading not vertical) whose logic(dt) keeps being called with dt >= 1
\* eventually has has_bounced true and later isFinished() true.
C18_EventuallyFinished ==
    (~nan /\ dir[1] # 0) => <>isFinished(Self)

\* a tick that found the ball bounced and unfinished, and finished it
C18_Witness ==
    /\ call.op = "logic" /\ call.arg >= 1 /\ ~nan /\ dir[1] # 0
    /\ old.has_bounced /\ ~isFinished(old) /\ isFinished(Self)

InputsInsideBounds ==
    \A p \in Origins \cup Dests, raw_size \in RawSizes :
        LET b == Construct(p, p, TRUE, raw_size)
        IN  b.offset[2] <= p[2] /\ p[2] <= display_height - b.offset[2]

\* C20: logic(dt) returns true exactly when pos.x was negative before the call
\* and is non-negative after it, and for a ball built from an origin and a
\* destination inside the inset vertical bounds with dir.x # 0 it returns true
\* at most once, whatever changeDestX and bounce calls are made in between.
C20_ArrivalCountedOnce ==
    /\ (call.op = "logic" /\ ~nan) =>
           (call.ret <=> (old.pos[1] < 0 /\ pos[1] # NaN /\ pos[1] >= 0))
    /\ (InputsInsideBounds /\ ~nan /\ dir[1] # 0) => arrivals <= 1

====
